---- MODULE Spec2Model ----
(***************************************************************************)
(* A model of streamlit_happytreefriends_app.py: one Streamlit session of  *)
(* the plant-care chatbot.  Streamlit runs the script from the top on      *)
(* every interaction (a "render cycle"); st.session_state survives the     *)
(* cycles, the script's own variables do not.  pc is the position of the   *)
(* script within the current cycle, "Idle" between two cycles.             *)
(***************************************************************************)
EXTENDS Integers, Sequences, FiniteSets, TLC

\* ------------------------------------------------------------------ bounds

\* The largest number of turns (user entry + assistant entry) a transcript
\* holds in the model; the code has no cap.
MaxTurns == 2

\* ------------------------------------------------------- values and inputs

\* Python's None, where the code holds a str or None.
None == "None"

\* not x, for x a str or None (lines 17, 116).
Falsy(x) == x = None \/ x = ""

\* What os.getenv("GOOGLE_API_KEY") can return (line 14).
Keys == {None, "", "X", "Y"}

\* What st.chat_input returns (line 114): None, or the submitted text.
Prompts == {"a", "b"}
ChatInputs == {None, ""} \cup Prompts

\* What st.file_uploader returns (lines 32-37): None, modelled by NoUpload, or
\* an uploaded file with its name (a sequence of characters) and its bytes.
NoUpload == [name |-> <<>>, value |-> <<>>]
LeafJpg == [name |-> <<"l", "e", "a", "f", ".", "j", "p", "g">>,
            value |-> <<255, 216, 255>>]
PlantPng == [name |-> <<"p", ".", "P", "N", "G">>, value |-> <<137, 80>>]
Uploads == {NoUpload, LeafJpg, PlantPng}

\* Contents of the last message of an agent response, and descriptions of the
\* exceptions agent.invoke raises (line 150).
ResponseTexts == {"r"}
Failures == {"network timeout"}

VARIABLES
    session_state,    \* st.session_state: a mapping with keys among
                      \* "agent", "_last_key", "messages"
    pc,               \* position of the script in the current cycle
    google_api_key,   \* line 14
    uploaded_image,   \* line 32
    prompt,           \* line 114
    messages,         \* line 127: the list passed to agent.invoke
    data_url,         \* lines 128-134
    answer,           \* lines 154, 156, 160
    display,          \* the chat bubbles drawn in this cycle, in order
    stopped,          \* "info" / "error" when st.stop() ended the cycle
    prevKey,          \* history: google_api_key of the previous cycle
    outcome,          \* history: what agent.invoke did in this cycle
    before,           \* history: the transcript when the turn began
    builtKeys,        \* history: credentials an agent was constructed with
    rebuiltKeys,      \* history: those it was constructed with twice or more
    atStart,          \* history: st.session_state when the cycle began
    constructed,      \* history: "ok" / "failed" once lines 49-92 ran in
                      \* this cycle, "no" before and when they are skipped
    imaged            \* history: positions of the transcript entries that
                      \* were appended while an image was uploaded

vars == <<session_state, pc, google_api_key, uploaded_image, prompt, messages,
          data_url, answer, display, stopped, prevKey, outcome, before,
          builtKeys, rebuiltKeys, atStart, constructed, imaged>>

locals == <<uploaded_image, prompt, messages, data_url, answer>>
history == <<prevKey, outcome, before, builtKeys, rebuiltKeys, atStart,
             constructed, imaged>>

\* ------------------------------------------------------------ session state

EmptyState == [k \in {} |-> k]

\* st.session_state.<k> = v
SetItem(s, k, v) == [x \in DOMAIN s \cup {k} |-> IF x = k THEN v ELSE s[x]]

\* st.session_state.pop(k, None)
Pop(s, k) == [x \in DOMAIN s \ {k} |-> s[x]]

\* getattr(st.session_state, k, default)
GetAttr(s, k, default) == IF k \in DOMAIN s THEN s[k] ELSE default

\* st.session_state.messages.append(entry)
AppendEntry(s, entry) == SetItem(s, "messages", Append(s["messages"], entry))

Entry(role, content) == [role |-> role, content |-> content]

\* The transcript as a sequence; no transcript reads as the empty one.
Transcript == GetAttr(session_state, "messages", <<>>)

\* ------------------------------------------------------------ image encoder

B64Alphabet ==
    <<"A", "B", "C", "D", "E", "F", "G", "H", "I", "J", "K", "L", "M",
      "N", "O", "P", "Q", "R", "S", "T", "U", "V", "W", "X", "Y", "Z",
      "a", "b", "c", "d", "e", "f", "g", "h", "i", "j", "k", "l", "m",
      "n", "o", "p", "q", "r", "s", "t", "u", "v", "w", "x", "y", "z",
      "0", "1", "2", "3", "4", "5", "6", "7", "8", "9", "+", "/">>

B64Char(n) == B64Alphabet[n + 1]

\* base64.b64encode(bs).decode("utf-8"), line 131: three bytes give four
\* characters; a last group of one or two bytes is padded with "=".
RECURSIVE b64encode(_)
b64encode(bs) ==
    IF Len(bs) = 0 THEN ""
    ELSE IF Len(bs) = 1 THEN
        B64Char(bs[1] \div 4) \o B64Char((bs[1] % 4) * 16) \o "=="
    ELSE IF Len(bs) = 2 THEN
        B64Char(bs[1] \div 4)
        \o B64Char((bs[1] % 4) * 16 + bs[2] \div 16)
        \o B64Char((bs[2] % 16) * 4) \o "="
    ELSE
        B64Char(bs[1] \div 4)
        \o B64Char((bs[1] % 4) * 16 + bs[2] \div 16)
        \o B64Char((bs[2] % 16) * 4 + bs[3] \div 64)
        \o B64Char(bs[3] % 64)
        \o b64encode(SubSeq(bs, 4, Len(bs)))

\* str.lower() on the characters the model's file names use.
Lower(c) ==
    CASE c = "J" -> "j" [] c = "P" -> "p" [] c = "G" -> "g"
      [] c = "N" -> "n" [] c = "E" -> "e" [] OTHER -> c

\* The extension of a file name: from its last dot on, a leading dot aside.
LastDot(name) ==
    LET dots == {i \in 2..Len(name) : name[i] = "."}
    IN  IF dots = {} THEN 0 ELSE CHOOSE i \in dots : \A j \in dots : j <= i

SplitExt(name) ==
    IF LastDot(name) = 0 THEN <<>> ELSE SubSeq(name, LastDot(name), Len(name))

\* mimetypes.guess_type(name)[0], line 130, on the types the uploader lets in.
guess_type(name) ==
    LET ext == [i \in 1..Len(SplitExt(name)) |-> Lower(SplitExt(name)[i])]
    IN  CASE ext = <<".", "j", "p", "g">> -> "image/jpeg"
          [] ext = <<".", "j", "p", "e", "g">> -> "image/jpeg"
          [] ext = <<".", "p", "n", "g">> -> "image/png"
          [] OTHER -> None

\* DataUrl with a fixed MIME type in place of the one of line 130.
DataUrlJpeg(upload) ==
    IF upload # NoUpload
    THEN "data:image/jpeg;base64," \o b64encode(upload.value)
    ELSE None

\* Lines 128-134.
DataUrl(upload) ==
    IF upload # NoUpload
    THEN "data:" \o guess_type(upload.name) \o ";base64,"
         \o b64encode(upload.value)
    ELSE None

\* -------------------------------------------------------- message translator

\* A message content is a str or a list of parts.
Text(s) == [str |-> s]
Parts(l) == [list |-> l]

HumanMessage(content) == [type |-> "human", content |-> content]
AIMessage(content) == [type |-> "ai", content |-> content]

\* Lines 140-143.
Multimodal(text, url) ==
    HumanMessage(Parts(<<[type |-> "text", text |-> text],
                         [type |-> "image_url", image_url |-> [url |-> url]]>>))

\* The condition of line 139.
AttachesImage(msg, p, upload, url) ==
    upload # NoUpload /\ msg.content = p /\ ~Falsy(url)

\* Translate without the comparison with the prompt in line 139.
RECURSIVE TranslateEveryUser(_, _, _, _)
TranslateEveryUser(transcript, p, upload, url) ==
    IF transcript = <<>> THEN <<>>
    ELSE LET msg == Head(transcript)
             rest == TranslateEveryUser(Tail(transcript), p, upload, url)
         IN  IF msg.role = "user" THEN
                 IF upload # NoUpload /\ ~Falsy(url)
                 THEN <<Multimodal(msg.content, url)>> \o rest
                 ELSE <<HumanMessage(Text(msg.content))>> \o rest
             ELSE IF msg.role = "assistant" THEN
                 <<AIMessage(Text(msg.content))>> \o rest
             ELSE rest

\* Lines 136-147: the messages built from the transcript, in order; an entry
\* that is neither a user nor an assistant entry gives no message.
RECURSIVE Translate(_, _, _, _)
Translate(transcript, p, upload, url) ==
    IF transcript = <<>> THEN <<>>
    ELSE LET msg == Head(transcript)
             rest == Translate(Tail(transcript), p, upload, url)
         IN  IF msg.role = "user" THEN
                 IF AttachesImage(msg, p, upload, url)
                 THEN <<Multimodal(msg.content, url)>> \o rest
                 ELSE <<HumanMessage(Text(msg.content))>> \o rest
             ELSE IF msg.role = "assistant" THEN
                 <<AIMessage(Text(msg.content))>> \o rest
             ELSE rest

\* ---------------------------------------------------------- agent invocation

\* What agent.invoke can do (line 150): return a mapping whose "messages"
\* list continues the input with the model's reply, return a mapping with an
\* empty list or without the key, or raise.
Responses(input) ==
    {[messages |-> Append(input, AIMessage(Text(c)))] : c \in ResponseTexts}
    \cup {[messages |-> <<>>], [output |-> <<>>]}

Returned(r) == [kind |-> "returned", response |-> r]
Raised(d) == [kind |-> "raised", e |-> d]
NotInvoked == [kind |-> "none"]

Outcomes(input) ==
    {Returned(r) : r \in Responses(input)} \cup {Raised(d) : d \in Failures}

FallbackText == "I'm sorry, I couldn't generate a response."

\* ErrorText without its fixed prefix.
ErrorTextBare(d) == d

\* Line 160.
ErrorText(d) == "An error occurred: " \o d

\* ExtractAnswer reading the first message of the response (index 0 for -1).
ExtractAnswerFirst(response) ==
    IF "messages" \in DOMAIN response /\ Len(response.messages) > 0
    THEN LET c == response.messages[1].content
         IN  IF "list" \in DOMAIN c THEN c.list[1].text ELSE c.str
    ELSE FallbackText

\* Lines 153-156.
ExtractAnswer(response) ==
    IF "messages" \in DOMAIN response /\ Len(response.messages) > 0
    THEN response.messages[Len(response.messages)].content.str
    ELSE FallbackText

\* Lines 150-160: the answer of the turn.
AnswerOf(o) ==
    IF o.kind = "raised" THEN ErrorText(o.e) ELSE ExtractAnswer(o.response)

\* --------------------------------------------------------------- the script

Init ==
    /\ session_state = EmptyState
    /\ pc = "Idle"
    /\ google_api_key = None
    /\ uploaded_image = NoUpload
    /\ prompt = None
    /\ messages = <<>>
    /\ data_url = None
    /\ answer = None
    /\ display = <<>>
    /\ stopped = "no"
    /\ prevKey = None
    /\ outcome = NotInvoked
    /\ before = <<>>
    /\ builtKeys = {}
    /\ rebuiltKeys = {}
    /\ atStart = EmptyState
    /\ constructed = "no"
    /\ imaged = {}

\* A cycle begins: the script starts from the top with fresh variables and
\* reads the credential (lines 13-14).
LoadKey ==
    /\ pc = "Idle"
    /\ \E k \in Keys : google_api_key' = k
    /\ prevKey' = google_api_key
    /\ pc' = "gate"
    /\ uploaded_image' = NoUpload
    /\ prompt' = None
    /\ messages' = <<>>
    /\ data_url' = None
    /\ answer' = None
    /\ display' = <<>>
    /\ stopped' = "no"
    /\ outcome' = NotInvoked
    /\ before' = <<>>
    /\ atStart' = session_state
    /\ constructed' = "no"
    /\ UNCHANGED <<session_state, builtKeys, rebuiltKeys, imaged>>

\* The test of line 17 as "is None": an empty credential gets through.
GateHaltsOnNone == google_api_key = None

\* Lines 17-19.
GateHalts == Falsy(google_api_key)

CredentialGate ==
    /\ pc = "gate"
    /\ IF GateHalts
       THEN pc' = "Idle" /\ stopped' = "info"
       ELSE pc' = "upload" /\ stopped' = stopped
    /\ UNCHANGED <<session_state, google_api_key, locals, display, history>>

\* Lines 30-41.
FileUploader ==
    /\ pc = "upload"
    /\ \E f \in Uploads : uploaded_image' = f
    /\ pc' = "factory"
    /\ UNCHANGED <<session_state, google_api_key, prompt, messages, data_url,
                   answer, display, stopped, history>>

\* The condition of line 48 without the comparison of the credentials.
NeedsAgentOnce == "agent" \notin DOMAIN session_state

\* The condition of line 48.
NeedsAgent ==
    ("agent" \notin DOMAIN session_state)
    \/ (GetAttr(session_state, "_last_key", None) # google_api_key)

\* Lines 51-83.
CreateAgent(key) == [model |-> "gemini-2.5-flash", google_api_key |-> key]

\* Rebuilt without line 88: the transcript outlives the agent.
RebuiltKeepsMessages(s, key) ==
    SetItem(SetItem(s, "agent", CreateAgent(key)), "_last_key", key)

\* Rebuilt without line 86: the credential used is not recorded.
RebuiltUnrecorded(s, key) ==
    Pop(SetItem(s, "agent", CreateAgent(key)), "messages")

\* Lines 58-88, when the construction succeeds.
Rebuilt(s, key) ==
    Pop(SetItem(SetItem(s, "agent", CreateAgent(key)), "_last_key", key),
        "messages")

\* AgentFactory with line 86 moved before line 51: the credential is
\* recorded before the construction, so a failed construction records it.
AgentFactoryRecordsFirst ==
    /\ pc = "factory"
    /\ IF NeedsAgent
       THEN \/ /\ session_state' = Rebuilt(session_state, google_api_key)
               /\ builtKeys' = builtKeys \cup {google_api_key}
               /\ rebuiltKeys' =
                     rebuiltKeys \cup (builtKeys \cap {google_api_key})
               /\ constructed' = "ok"
               /\ imaged' = {}
               /\ pc' = "init"
               /\ stopped' = stopped
            \/ /\ session_state' =
                     SetItem(session_state, "_last_key", google_api_key)
               /\ pc' = "Idle"
               /\ stopped' = "error"
               /\ constructed' = "failed"
               /\ UNCHANGED <<builtKeys, rebuiltKeys, imaged>>
       ELSE /\ pc' = "init"
            /\ UNCHANGED <<session_state, builtKeys, rebuiltKeys, stopped,
                           constructed, imaged>>
    /\ UNCHANGED <<google_api_key, locals, display, prevKey, outcome, before,
                   atStart>>

\* Lines 48-92.
AgentFactory ==
    /\ pc = "factory"
    /\ IF NeedsAgent
       THEN \/ /\ session_state' = Rebuilt(session_state, google_api_key)
               /\ builtKeys' = builtKeys \cup {google_api_key}
               /\ rebuiltKeys' =
                     rebuiltKeys \cup (builtKeys \cap {google_api_key})
               /\ constructed' = "ok"
               /\ imaged' = {}
               /\ pc' = "init"
               /\ stopped' = stopped
            \/ /\ pc' = "Idle"
               /\ stopped' = "error"
               /\ constructed' = "failed"
               /\ UNCHANGED <<session_state, builtKeys, rebuiltKeys, imaged>>
       ELSE /\ pc' = "init"
            /\ UNCHANGED <<session_state, builtKeys, rebuiltKeys, stopped,
                           constructed, imaged>>
    /\ UNCHANGED <<google_api_key, locals, display, prevKey, outcome, before,
                   atStart>>

\* Line 98 without the test of line 97.
InitializedAlways(s) == SetItem(s, "messages", <<>>)

\* Lines 97-98.
Initialized(s) ==
    IF "messages" \notin DOMAIN s THEN SetItem(s, "messages", <<>>) ELSE s

InitMessages ==
    /\ pc = "init"
    /\ session_state' = Initialized(session_state)
    /\ pc' = "render"
    /\ UNCHANGED <<google_api_key, locals, display, stopped, history>>

\* The loop of lines 103-107 stopping one entry short.
RenderTranscriptShort ==
    /\ pc = "render"
    /\ display' = display \o SubSeq(session_state["messages"], 1,
                                     Len(session_state["messages"]) - 1)
    /\ pc' = "input"
    /\ UNCHANGED <<session_state, google_api_key, locals, stopped, history>>

\* Lines 103-107.
RenderTranscript ==
    /\ pc = "render"
    /\ display' = display \o session_state["messages"]
    /\ pc' = "input"
    /\ UNCHANGED <<session_state, google_api_key, locals, stopped, history>>

\* Lines 114-116: the input is read; a turn begins when it is not empty.
ChatInput ==
    /\ pc = "input"
    /\ \E p \in ChatInputs :
        /\ Falsy(p) \/ Len(session_state["messages"]) < 2 * MaxTurns
        /\ prompt' = p
        /\ IF Falsy(p)
           THEN pc' = "Idle" /\ before' = before
           ELSE pc' = "UserSubmitted" /\ before' = session_state["messages"]
    /\ UNCHANGED <<session_state, google_api_key, uploaded_image, messages,
                   data_url, answer, display, stopped, prevKey, outcome,
                   builtKeys, rebuiltKeys, atStart, constructed,
                   imaged>>

\* The positions of the entries appended with an image, after one more entry
\* is appended to transcript t while upload is what the uploader holds.
Imaged(t, upload) ==
    IF upload # NoUpload THEN imaged \cup {Len(t) + 1} ELSE imaged

\* UserSubmitted keeping the image with the entry it appends.
UserSubmittedStoresImage ==
    /\ pc = "UserSubmitted"
    /\ session_state' =
          AppendEntry(session_state,
                      IF uploaded_image # NoUpload
                      THEN [role |-> "user", content |-> prompt,
                            image |-> DataUrl(uploaded_image)]
                      ELSE Entry("user", prompt))
    /\ display' = Append(display, Entry("user", prompt))
    /\ imaged' = Imaged(session_state["messages"], uploaded_image)
    /\ pc' = "Translating"
    /\ UNCHANGED <<google_api_key, locals, stopped, prevKey, outcome, before,
                   builtKeys, rebuiltKeys, atStart, constructed>>

\* Lines 118-121.
UserSubmitted ==
    /\ pc = "UserSubmitted"
    /\ session_state' = AppendEntry(session_state, Entry("user", prompt))
    /\ display' = Append(display, Entry("user", prompt))
    /\ imaged' = Imaged(session_state["messages"], uploaded_image)
    /\ pc' = "Translating"
    /\ UNCHANGED <<google_api_key, locals, stopped, prevKey, outcome, before,
                   builtKeys, rebuiltKeys, atStart, constructed>>

\* Translating run before line 118: the transcript is translated without the
\* entry of the prompt just submitted.
TranslatingBeforeAppend ==
    /\ pc = "Translating"
    /\ data_url' = DataUrl(uploaded_image)
    /\ messages' = Translate(before, prompt, uploaded_image,
                             DataUrl(uploaded_image))
    /\ pc' = "Invoking"
    /\ UNCHANGED <<session_state, google_api_key, uploaded_image, prompt,
                   answer, display, stopped, history>>

\* Lines 127-147.
Translating ==
    /\ pc = "Translating"
    /\ data_url' = DataUrl(uploaded_image)
    /\ messages' = Translate(session_state["messages"], prompt, uploaded_image,
                             DataUrl(uploaded_image))
    /\ pc' = "Invoking"
    /\ UNCHANGED <<session_state, google_api_key, uploaded_image, prompt,
                   answer, display, stopped, history>>

\* Lines 150-160.
Invoking ==
    /\ pc = "Invoking"
    /\ \E o \in Outcomes(messages) :
        /\ outcome' = o
        /\ answer' = AnswerOf(o)
    /\ pc' = "Rendering"
    /\ UNCHANGED <<session_state, google_api_key, uploaded_image, prompt,
                   messages, data_url, display, stopped, prevKey, before,
                   builtKeys, rebuiltKeys, atStart, constructed,
                   imaged>>

\* Rendering with the append of line 166 moved into the try block: an answer
\* made by the except branch is shown and not recorded.
RenderingInsideTry ==
    /\ pc = "Rendering"
    /\ display' = Append(display, Entry("assistant", answer))
    /\ session_state' =
          IF outcome.kind = "raised" THEN session_state
          ELSE AppendEntry(session_state, Entry("assistant", answer))
    /\ pc' = "Idle"
    /\ UNCHANGED <<google_api_key, locals, stopped, history>>

\* Lines 163-166.
Rendering ==
    /\ pc = "Rendering"
    /\ display' = Append(display, Entry("assistant", answer))
    /\ session_state' = AppendEntry(session_state, Entry("assistant", answer))
    /\ pc' = "Idle"
    /\ UNCHANGED <<google_api_key, locals, stopped, history>>

Next ==
    \/ LoadKey
    \/ CredentialGate
    \/ FileUploader
    \/ AgentFactory
    \/ InitMessages
    \/ RenderTranscript
    \/ ChatInput
    \/ UserSubmitted
    \/ Translating
    \/ Invoking
    \/ Rendering

Spec == Init /\ [][Next]_vars

\* The script is one thread that runs a turn line after line: a turn that
\* has begun goes on, and agent.invoke is taken to return or raise.
TurnFairness ==
    /\ WF_vars(UserSubmitted)
    /\ WF_vars(Translating)
    /\ WF_vars(Invoking)
    /\ WF_vars(Rendering)

FairSpec == Spec /\ TurnFairness

\* ------------------------------------------------------------------- claims

\* entries alternate user, assistant, ... from a user entry on
Alternates(t) ==
    \A i \in 1..Len(t) :
        t[i].role = (IF i % 2 = 1 THEN "user" ELSE "assistant")

IsPrefix(s, t) == Len(s) <= Len(t) /\ SubSeq(t, 1, Len(s)) = s

\* The cycle that just ended ran a turn.
TurnDone == pc = "Idle" /\ ~Falsy(prompt)

\* C1: between two cycles the transcript is empty, or it alternates user,
\* assistant, ... from a user entry to an assistant entry, whatever the
\* cycles, credential changes and invocation outcomes before.
C1_Alternation ==
    pc = "Idle" =>
        \/ Transcript = <<>>
        \/ /\ Alternates(Transcript)
           /\ Transcript[1].role = "user"
           /\ Transcript[Len(Transcript)].role = "assistant"

\* C1's case: two turns are recorded after a credential change, one whose
\* invocation raised and one whose response had no messages.
C1_Witness ==
    /\ pc = "Idle"
    /\ builtKeys = {"X", "Y"}
    /\ Len(Transcript) = 4
    /\ Transcript[2].content = "An error occurred: network timeout"
    /\ Transcript[4].content = FallbackText

\* C2: a turn appends exactly the user entry of its input and then one
\* assistant entry to the transcript it found, whatever the invocation did;
\* when the invocation raised with description d the assistant entry reads
\* "An error occurred: " followed by d, and the session keeps its agent and
\* can start the next cycle.
C2_TurnAppendsTwo ==
    TurnDone =>
        LET n == Len(Transcript)
        IN  /\ n = Len(before) + 2
            /\ SubSeq(Transcript, 1, n - 2) = before
            /\ Transcript[n - 1] = Entry("user", prompt)
            /\ Transcript[n].role = "assistant"
            /\ outcome.kind \in {"returned", "raised"}
            /\ outcome.kind = "raised" =>
                  /\ Transcript[n].content = "An error occurred: " \o outcome.e
                  /\ outcome.e = "network timeout" =>
                        Transcript[n].content
                            = "An error occurred: network timeout"
                  /\ "agent" \in DOMAIN session_state
                  /\ session_state["_last_key"] = google_api_key
                  /\ ENABLED LoadKey

\* C2's case: a turn whose invocation raised has ended, and it followed a
\* turn whose invocation raised too.
C2_Witness ==
    /\ TurnDone
    /\ outcome = Raised("network timeout")
    /\ Len(before) = 2
    /\ before[2].content = "An error occurred: network timeout"
    /\ Len(Transcript) = 4

\* The agent construction of this cycle is over and no turn has begun.
PreTurn == pc \in {"init", "render", "input"}

\* The credential recorded by the last successful construction, when the
\* cycle began.
LastKeyAtStart == GetAttr(atStart, "_last_key", None)

\* C3, as the spec states it: whenever the credential of a cycle differs
\* from the credential of the cycle before, the transcript is empty after
\* the agent construction step and before any turn.
C3_Original ==
    (PreTurn /\ google_api_key # prevKey) => Len(Transcript) = 0

\* C3, amended: whenever the credential of a cycle differs from the recorded
\* last-used credential and the cycle gets past the construction step, the
\* transcript is empty from there until a turn begins and the agent is one
\* constructed in this cycle with this credential; when the credential is
\* the recorded one the transcript is the one the cycle found, whatever the
\* credential of the cycle before.
C3_CredentialChange ==
    PreTurn =>
        /\ google_api_key # LastKeyAtStart =>
              /\ Len(Transcript) = 0
              /\ constructed = "ok"
              /\ session_state["agent"].google_api_key = google_api_key
              /\ session_state["_last_key"] = google_api_key
        /\ google_api_key = LastKeyAtStart =>
              /\ Transcript = GetAttr(atStart, "messages", <<>>)
              /\ constructed = "no"

\* C3's case (scenario E): a session with four entries under X gets the
\* credential Y, and the agent has been rebuilt.
C3_Witness ==
    /\ pc = "render"
    /\ google_api_key = "Y"
    /\ prevKey = "X"
    /\ LastKeyAtStart = "X"
    /\ Len(atStart["messages"]) = 4
    /\ Len(Transcript) = 0
    /\ session_state["agent"].google_api_key = "Y"

IsMultimodal(m) == "list" \in DOMAIN m.content

\* The text a message carries.
TextOf(m) ==
    IF IsMultimodal(m) THEN m.content.list[1].text ELSE m.content.str

\* The image a multimodal message carries.
UrlOf(m) == m.content.list[2].image_url.url

WithImage(ms) == {i \in 1..Len(ms) : IsMultimodal(ms[i])}

\* C4: with an attachment present, at most one translated message carries
\* the image, also when an earlier user entry has the text of the prompt.
C4_AtMostOneImage ==
    (pc = "Invoking" /\ uploaded_image # NoUpload) =>
        Cardinality(WithImage(messages)) <= 1

\* C5, as the spec states it: an agent is constructed at most once for a
\* credential value, and only when no agent exists or the credential differs
\* from the recorded one.
C5_Original ==
    /\ rebuiltKeys = {}
    /\ constructed = "ok" =>
          \/ "agent" \notin DOMAIN atStart
          \/ LastKeyAtStart # google_api_key

\* The script got to lines 48-92 in this cycle and is past them.
PastFactory ==
    ~Falsy(google_api_key) /\ pc \notin {"gate", "upload", "factory"}

\* C5, amended: a cycle that gets to the factory constructs an agent, or
\* tries to, exactly when the session had no agent at its start or the
\* credential differs from the recorded last-used one; a construction that
\* succeeds leaves an agent of this credential and records the credential.
\* So cycles with the recorded credential construct nothing, and a
\* credential that comes back after another one was used is constructed
\* again.
C5_ConstructsOnChange ==
    /\ PastFactory =>
          (constructed \in {"ok", "failed"}
              <=> \/ "agent" \notin DOMAIN atStart
                  \/ LastKeyAtStart # google_api_key)
    /\ ~PastFactory => constructed = "no"
    /\ constructed = "ok" =>
          /\ session_state["agent"] = CreateAgent(google_api_key)
          /\ session_state["_last_key"] = google_api_key
          /\ google_api_key \in builtKeys

\* C5's case: the credential X comes back after Y was used, and an agent
\* is constructed for X a second time.
C5_Witness ==
    /\ pc = "init"
    /\ constructed = "ok"
    /\ google_api_key = "X"
    /\ LastKeyAtStart = "Y"
    /\ "X" \in rebuiltKeys

\* C6: a cycle whose credential is empty or absent ends at the gate: no
\* agent is constructed, no transcript is made or drawn, no input is read,
\* the agent is not invoked, and the session state is the one the cycle
\* found; a session that had no agent and no transcript still has none.
C6_CredentialGate ==
    Falsy(google_api_key) =>
        /\ pc \in {"Idle", "gate"}
        /\ constructed = "no"
        /\ display = <<>>
        /\ prompt = None
        /\ outcome = NotInvoked
        /\ session_state = atStart
        /\ "agent" \notin DOMAIN atStart =>
              DOMAIN session_state \cap {"agent", "messages"} = {}

\* C6's case: a session with an agent and two entries ran a cycle with the
\* empty credential, which the gate ended.
C6_Witness ==
    /\ pc = "Idle"
    /\ google_api_key = ""
    /\ stopped = "info"
    /\ "agent" \in DOMAIN session_state
    /\ Len(Transcript) = 2

\* C7: from one state to the next the transcript only grows at its end,
\* except that it is removed as a whole in the step that constructs an agent
\* because the credential differs from the recorded last-used one.
C7_AppendOnly ==
    [][\/ IsPrefix(Transcript, Transcript')
       \/ /\ Transcript' = <<>>
          /\ pc = "factory"
          /\ constructed' = "ok"
          /\ "agent" \in DOMAIN session_state
          /\ session_state["_last_key"] # google_api_key
          /\ session_state'["agent"] = CreateAgent(google_api_key)
          /\ session_state'["_last_key"] = google_api_key
      ]_vars

\* C7's case: a transcript of four entries has just been removed with the
\* agent rebuilt for another credential.
C7_Witness ==
    /\ pc = "init"
    /\ constructed = "ok"
    /\ "messages" \in DOMAIN atStart
    /\ Len(atStart["messages"]) = 4
    /\ atStart["_last_key"] # google_api_key
    /\ "messages" \notin DOMAIN session_state

\* C8: the translated list has one message per transcript entry, in order,
\* with the role and the text of the entry; no assistant message is
\* multimodal, and a user message is multimodal only when an attachment is
\* present and its text is the prompt just submitted.
C8_TranslatePreservesStructure ==
    pc = "Invoking" =>
        /\ Len(messages) = Len(Transcript)
        /\ \A i \in 1..Len(messages) :
              LET e == Transcript[i]
                  m == messages[i]
              IN  /\ e.role \in {"user", "assistant"}
                  /\ m.type = (IF e.role = "user" THEN "human" ELSE "ai")
                  /\ TextOf(m) = e.content
                  /\ e.role = "assistant" => ~IsMultimodal(m)
                  /\ IsMultimodal(m) =>
                        uploaded_image # NoUpload /\ e.content = prompt

\* C8's case: three entries are translated with an attachment present; the
\* earlier user entry has another text and stays plain, the current one
\* carries the image.
C8_Witness ==
    /\ pc = "Invoking"
    /\ uploaded_image = LeafJpg
    /\ Len(messages) = 3
    /\ Transcript[1].content # prompt
    /\ WithImage(messages) = {3}

\* C9: when an image is uploaded, the list the agent is invoked with ends
\* with a user message that is multimodal and holds the prompt and the
\* descriptor "data:<MIME type of the file name>;base64,<base64 of the
\* bytes>"; when none is uploaded no message of the list is multimodal.
C9_ImageOnCurrentTurn ==
    pc = "Rendering" =>
        /\ Len(messages) > 0
        /\ uploaded_image = NoUpload => WithImage(messages) = {}
        /\ uploaded_image # NoUpload =>
              LET m == messages[Len(messages)]
              IN  /\ m.type = "human"
                  /\ IsMultimodal(m)
                  /\ m.content.list[1] = [type |-> "text", text |-> prompt]
                  /\ m.content.list[2].type = "image_url"
                  /\ uploaded_image = LeafJpg =>
                        UrlOf(m) = "data:image/jpeg;base64,/9j/"
                  /\ uploaded_image = PlantPng =>
                        UrlOf(m) = "data:image/png;base64,iVA="

\* C9's case: the agent was invoked for a second turn with p.PNG uploaded,
\* after a first turn with another text.
C9_Witness ==
    /\ pc = "Rendering"
    /\ uploaded_image = PlantPng
    /\ outcome.kind = "returned"
    /\ Len(messages) = 3
    /\ WithImage(messages) = {3}

\* C10: when the invocation returns a response with a non-empty message
\* list, the assistant entry of the turn is the content of its last
\* message; when the response has an empty list or none, it is the fallback
\* text; in neither case is it the error text.
C10_OutcomeMapping ==
    (TurnDone /\ outcome.kind = "returned") =>
        LET r == outcome.response
            last == Transcript[Len(Transcript)]
        IN  /\ last.role = "assistant"
            /\ IF "messages" \in DOMAIN r /\ Len(r.messages) > 0
               THEN last.content = TextOf(r.messages[Len(r.messages)])
               ELSE last.content
                        = "I'm sorry, I couldn't generate a response."
            /\ \A d \in Failures :
                  last.content # "An error occurred: " \o d

\* C10's case: a second turn got a response of four messages and recorded
\* the content of the last, after a first turn whose response had no
\* message list.
C10_Witness ==
    /\ TurnDone
    /\ outcome.kind = "returned"
    /\ "messages" \in DOMAIN outcome.response
    /\ Len(outcome.response.messages) = 4
    /\ Transcript[4].content = "r"
    /\ Transcript[2].content = FallbackText

\* The cycle that just ended ran to the end of the script without a turn,
\* with the credential the session had recorded.
QuietCycleDone ==
    /\ pc = "Idle"
    /\ stopped = "no"
    /\ ~Falsy(google_api_key)
    /\ Falsy(prompt)
    /\ "agent" \in DOMAIN atStart
    /\ google_api_key = LastKeyAtStart

WithUserEntry == Append(before, Entry("user", prompt))

\* What holds in each state of a turn.
TurnStates ==
    /\ pc = "UserSubmitted" =>
          /\ ~Falsy(prompt)
          /\ Transcript = before
          /\ messages = <<>>
          /\ outcome = NotInvoked
    /\ pc = "Translating" =>
          /\ Transcript = WithUserEntry
          /\ messages = <<>>
          /\ outcome = NotInvoked
    /\ pc = "Invoking" =>
          /\ Transcript = WithUserEntry
          /\ Len(messages) = Len(WithUserEntry)
          /\ outcome = NotInvoked
    /\ pc = "Rendering" =>
          /\ Transcript = WithUserEntry
          /\ Len(messages) = Len(WithUserEntry)
          /\ outcome.kind \in {"returned", "raised"}
    /\ TurnDone =>
          /\ Transcript = Append(WithUserEntry, Entry("assistant", answer))
          /\ outcome.kind \in {"returned", "raised"}

\* The steps of a turn: each state is left for the next one only, a turn
\* begins only where the input is read, and the prompt of a turn in progress
\* is not replaced.
TurnSteps ==
    /\ pc' = "UserSubmitted" => pc = "input"
    /\ pc = "UserSubmitted" => pc' = "Translating"
    /\ pc = "Translating" => pc' = "Invoking"
    /\ pc = "Invoking" => pc' = "Rendering"
    /\ pc = "Rendering" => pc' = "Idle"
    /\ pc \in {"UserSubmitted", "Translating", "Invoking", "Rendering"} =>
          prompt' = prompt /\ before' = before

\* C12: a turn goes from the reading of the input through UserSubmitted,
\* Translating, Invoking and Rendering back to Idle, in that order: the user
\* entry is in the transcript before the translation, the translation is
\* complete before the invocation, the assistant entry is appended only
\* after the invocation returned or raised; no turn begins while one is in
\* progress; and, the invocation returning or raising, every turn that has
\* begun comes back to Idle with its two entries appended.
C12_TurnOrder ==
    /\ []TurnStates
    /\ [][TurnSteps]_vars
    /\ (pc = "UserSubmitted") ~> TurnDone

\* C12's case: a second turn has come back to Idle after its invocation
\* raised.
C12_Witness ==
    /\ TurnDone
    /\ Len(before) = 2
    /\ outcome.kind = "raised"
    /\ Transcript = Append(WithUserEntry, Entry("assistant", answer))

\* C13: when the construction of the agent fails, the cycle is over: the
\* transcript is not drawn, no input is read, the agent is not invoked,
\* nothing is appended, and st.session_state (agent, recorded credential,
\* transcript) is what the cycle found; the construction is attempted once,
\* and only because no agent existed or the credential was not the recorded
\* one.
C13_ConstructionFailure ==
    constructed = "failed" =>
        /\ pc = "Idle"
        /\ stopped = "error"
        /\ display = <<>>
        /\ prompt = None
        /\ messages = <<>>
        /\ outcome = NotInvoked
        /\ session_state = atStart
        /\ \/ "agent" \notin DOMAIN atStart
           \/ LastKeyAtStart # google_api_key

\* C13's case: a session with an agent for X and four entries got the
\* credential Y, the construction failed, and agent and transcript are kept.
C13_Witness ==
    /\ pc = "Idle"
    /\ constructed = "failed"
    /\ google_api_key = "Y"
    /\ "agent" \in DOMAIN session_state
    /\ session_state["agent"].google_api_key = "X"
    /\ session_state["_last_key"] = "X"
    /\ Len(Transcript) = 4

\* The agent of the session was constructed with credential k, which is
\* the recorded one.
AgentBoundTo(k) ==
    /\ "agent" \in DOMAIN session_state
    /\ "_last_key" \in DOMAIN session_state
    /\ session_state["_last_key"] = k
    /\ session_state["agent"].google_api_key = k

\* C14: when the agent is invoked, the session has an agent, the recorded
\* credential is the non-empty credential of the cycle, and the agent was
\* constructed with it; and whenever the session has an agent, the recorded
\* credential is not empty and is the one the agent was constructed with.
C14_AgentMatchesCredential ==
    /\ pc \in {"Invoking", "Rendering"} =>
          ~Falsy(google_api_key) /\ AgentBoundTo(google_api_key)
    /\ "agent" \in DOMAIN session_state =>
          /\ "_last_key" \in DOMAIN session_state
          /\ ~Falsy(session_state["_last_key"])
          /\ AgentBoundTo(session_state["_last_key"])

\* C14's case: the agent is about to be invoked under Y in a session that
\* had constructed an agent for X before.
C14_Witness ==
    /\ pc = "Invoking"
    /\ google_api_key = "Y"
    /\ builtKeys = {"X", "Y"}
    /\ AgentBoundTo("Y")

\* The descriptors of the images the uploader can hold.
ImageUrls == {DataUrl(u) : u \in Uploads \ {NoUpload}}

\* C15: no transcript entry holds the attachment: an entry has a role and a
\* content only, and the content is the text submitted or answered; so when
\* a later turn is translated, a user entry that was appended with an image
\* uploaded and whose text is not the current prompt gives a plain text
\* message, and with an image uploaded the message of the current prompt
\* carries that image, in every turn.
C15_AttachmentNotStored ==
    /\ \A i \in 1..Len(Transcript) :
          /\ DOMAIN Transcript[i] = {"role", "content"}
          /\ Transcript[i].content \notin ImageUrls
          /\ Transcript[i].role = "user" => Transcript[i].content \in Prompts
    /\ imaged \subseteq {i \in 1..Len(Transcript) : Transcript[i].role = "user"}
    /\ pc = "Invoking" =>
          /\ Len(messages) = Len(Transcript)
          /\ \A i \in imaged :
                (i < Len(Transcript) /\ Transcript[i].content # prompt) =>
                    messages[i] = HumanMessage(Text(Transcript[i].content))
          /\ uploaded_image # NoUpload =>
                /\ Len(Transcript) \in imaged
                /\ messages[Len(messages)]
                      = Multimodal(prompt, DataUrl(uploaded_image))

\* C15's case: the second turn is translated with leaf.jpg uploaded, as it
\* was in the first turn, whose text was another: the first entry gives a
\* plain message, the current prompt carries the image.
C15_Witness ==
    /\ pc = "Invoking"
    /\ uploaded_image = LeafJpg
    /\ imaged = {1, 3}
    /\ Transcript[1].content # prompt
    /\ messages[1] = HumanMessage(Text(Transcript[1].content))
    /\ WithImage(messages) = {3}
    /\ UrlOf(messages[3]) = "data:image/jpeg;base64,/9j/"

====
